---- MODULE Spec2Model ----
(***************************************************************************)
(* Model of the friendly-date library: date keys at four resolutions       *)
(* (day, week, month, year), the converters between calendar dates and     *)
(* keys, and the friendly formatter.                                       *)
(*                                                                         *)
(* Representation.                                                         *)
(*   - A string is a sequence of one-character strings, so that the        *)
(*     regular expressions of the guards, padStart and parseInt are        *)
(*     modelled character by character.                                    *)
(*   - A Date is [nan |-> BOOLEAN, t |-> Int]: t is the local calendar day *)
(*     counted from 1970-01-01 (the time value at day granularity), nan    *)
(*     marks an Invalid Date.  Nothing in the library looks at the time of *)
(*     day.                                                                *)
(*   - A call that may throw returns [err |-> e, val |-> v], err = "" for  *)
(*     a normal return.                                                    *)
(*   - Formatter output is a sequence of parts [type, value], the shape of *)
(*     Intl.DateTimeFormat.formatToParts; the string is their              *)
(*     concatenation.                                                      *)
(***************************************************************************)
EXTENDS Integers, Sequences, FiniteSets, TLC

VARIABLES now, call, ret

vars == <<now, call, ret>>

(***************************************************************************)
(* Bounds of the model.                                                    *)
(***************************************************************************)
\* first calendar year of the dates given to the converters
FirstYear == 2019
\* number of consecutive calendar years of dates given to the converters
NumYears == 8
\* the wall clock starts on Dec 31 of this year ...
ClockYear == 2023
\* ... and can advance this many days (into the new year)
ClockDays == 1
\* longest string of the characters of a key given to the guards, and longest
\* tail after a year given to them
MaxTail == 7

(***************************************************************************)
(* Characters and strings.                                                 *)
(***************************************************************************)
Digits == <<"0", "1", "2", "3", "4", "5", "6", "7", "8", "9">>

IsDigit(c) == \E i \in 1..10 : Digits[i] = c

DigitVal(c) == (CHOOSE i \in 1..10 : Digits[i] = c) - 1

\* String(n) of a non-negative integer
RECURSIVE NumToStr(_)
NumToStr(n) ==
    IF n < 10 THEN <<Digits[n + 1]>>
    ELSE NumToStr(n \div 10) \o <<Digits[(n % 10) + 1]>>

\* parseInt(s, 10) of a string of digits
RECURSIVE ParseInt(_)
ParseInt(s) ==
    IF Len(s) = 0 THEN 0
    ELSE 10 * ParseInt(SubSeq(s, 1, Len(s) - 1)) + DigitVal(s[Len(s)])

\* s.padStart(width, "0")
RECURSIVE PadStart(_, _)
PadStart(s, width) ==
    IF Len(s) >= width THEN s ELSE PadStart(<<"0">> \o s, width)

AllDigits(s, from, to) == \A i \in from..to : IsDigit(s[i])

\* the positions at which sep occurs in s
Occurrences(s, sep) ==
    {i \in 1..(Len(s) - Len(sep) + 1) : SubSeq(s, i, i + Len(sep) - 1) = sep}

\* the first position at which sep occurs in s
FirstOccurrence(s, sep) ==
    CHOOSE i \in Occurrences(s, sep) : \A j \in Occurrences(s, sep) : i <= j

\* s.split(sep), sep not empty: the sequence of the pieces
RECURSIVE Split(_, _)
Split(s, sep) ==
    IF Occurrences(s, sep) = {} THEN <<s>>
    ELSE <<SubSeq(s, 1, FirstOccurrence(s, sep) - 1)>>
         \o Split(SubSeq(s, FirstOccurrence(s, sep) + Len(sep), Len(s)), sep)

(***************************************************************************)
(* guards: the four shapes.                                                *)
(***************************************************************************)
\* /^\d{4}-\d{2}-\d{2}$/
isDayKey(key) ==
    /\ Len(key) = 10
    /\ AllDigits(key, 1, 4) /\ key[5] = "-"
    /\ AllDigits(key, 6, 7) /\ key[8] = "-"
    /\ AllDigits(key, 9, 10)

\* /^\d{4}-W\d{2}$/
isWeekKey(key) ==
    /\ Len(key) = 8
    /\ AllDigits(key, 1, 4) /\ key[5] = "-" /\ key[6] = "W"
    /\ AllDigits(key, 7, 8)

\* /^\d{4}-\d{2}$/
isMonthKey(key) ==
    /\ Len(key) = 7
    /\ AllDigits(key, 1, 4) /\ key[5] = "-"
    /\ AllDigits(key, 6, 7)

\* isYearKey without the anchor at the end: /^\d{4}/
isYearKey_noEnd(key) == Len(key) >= 4 /\ AllDigits(key, 1, 4)

\* /^\d{4}$/
isYearKey(key) == Len(key) = 4 /\ AllDigits(key, 1, 4)

(***************************************************************************)
(* builders.                                                               *)
(***************************************************************************)
\* pad without the padding
pad_noPadding(n) == NumToStr(n)

pad(n) == PadStart(NumToStr(n), 2)

toDayKey(year, month, day) ==
    NumToStr(year) \o <<"-">> \o pad(month) \o <<"-">> \o pad(day)

toWeekKey(year, week) == NumToStr(year) \o <<"-", "W">> \o pad(week)

toMonthKey(year, month) == NumToStr(year) \o <<"-">> \o pad(month)

toYearKey(year) == NumToStr(year)

(***************************************************************************)
(* The Date object: proleptic Gregorian calendar on day numbers.           *)
(***************************************************************************)
Date(t) == [nan |-> FALSE, t |-> t]

InvalidDate == [nan |-> TRUE, t |-> 0]

\* isValid(date)
isValid(date) == ~date.nan

IsLeap(y) == (y % 4 = 0 /\ y % 100 # 0) \/ y % 400 = 0

DaysInMonth(y, m) ==
    IF m = 2 THEN (IF IsLeap(y) THEN 29 ELSE 28)
    ELSE IF m \in {4, 6, 9, 11} THEN 30 ELSE 31

\* day number of the civil date y-m-d (m in 1..12), 1970-01-01 = 0; yy is
\* the year counted from March 1
DaysFromMarchYear(yy, m, d) ==
    (yy \div 400) * 146097
    + (yy % 400) * 365 + (yy % 400) \div 4 - (yy % 400) \div 100
    + (153 * ((m + 9) % 12) + 2) \div 5 + d - 1
    - 719468

DaysFromCivil(y, m, d) == DaysFromMarchYear(IF m <= 2 THEN y - 1 ELSE y, m, d)

\* the civil date [y, m, d] of a day number, computed in stages: from the
\* 400-year era and the day of the era (doe), the year of the era (yoe), the
\* day of the year counted from March 1 (doy) and the month counted from
\* March (mp)
CivilFromMp(era, yoe, doy, mp) ==
    [y |-> yoe + era * 400 + (IF mp >= 10 THEN 1 ELSE 0),
     m |-> IF mp < 10 THEN mp + 3 ELSE mp - 9,
     d |-> doy - (153 * mp + 2) \div 5 + 1]

CivilFromDoy(era, yoe, doy) == CivilFromMp(era, yoe, doy, (5 * doy + 2) \div 153)

CivilFromYoe(era, doe, yoe) ==
    CivilFromDoy(era, yoe, doe - (365 * yoe + yoe \div 4 - yoe \div 100))

CivilFromDoe(era, doe) ==
    CivilFromYoe(era, doe,
                 (doe - doe \div 1460 + doe \div 36524 - doe \div 146096) \div 365)

CivilFromDays(z) ==
    CivilFromDoe((z + 719468) \div 146097, (z + 719468) % 146097)

\* date.getFullYear(), date.getMonth() (0-based), date.getDate(), date.getDay()
getFullYear(date) == CivilFromDays(date.t).y
getMonth(date) == CivilFromDays(date.t).m - 1
getDate(date) == CivilFromDays(date.t).d
getDay(date) == (date.t + 4) % 7

\* new Date(0).setFullYear(year, month, day) for a real calendar day
MakeDate(year, month, day) == Date(DaysFromCivil(year, month + 1, day))

(***************************************************************************)
(* date-fns, with the default (en-US) locale options.                      *)
(***************************************************************************)
\* the week starts on Sunday
WeekStartsOn == 0
\* week 1 of a week-numbering year is the week that contains January 1
FirstWeekContainsDate == 1

Ok(v) == [err |-> "", val |-> v]

\* the value of a call that throws: err names the error, val is not a string
Throw(e) == [err |-> e, val |-> <<>>]

\* startOfWeek(date)
startOfWeek(date) ==
    IF date.nan THEN InvalidDate
    ELSE Date(date.t - ((IF getDay(date) < WeekStartsOn THEN 7 ELSE 0)
                        + getDay(date) - WeekStartsOn))

\* endOfWeek(date)
endOfWeek(date) ==
    IF date.nan THEN InvalidDate
    ELSE Date(date.t + ((IF getDay(date) < WeekStartsOn THEN -7 ELSE 0)
                        + 6 - (getDay(date) - WeekStartsOn)))

\* the start of the first week of a week-numbering year: the week that
\* contains January FirstWeekContainsDate
startOfFirstWeek(year) == startOfWeek(MakeDate(year, 0, FirstWeekContainsDate))

\* getWeekYear(date), of a valid date whose calendar year is year
getWeekYearFrom(date, year) ==
    IF date.t >= startOfFirstWeek(year + 1).t THEN year + 1
    ELSE IF date.t >= startOfFirstWeek(year).t THEN year
    ELSE year - 1

\* getWeekYear(date), of a valid date
getWeekYear(date) == getWeekYearFrom(date, getFullYear(date))

\* startOfWeekYear(date)
startOfWeekYear(date) == startOfFirstWeek(getWeekYear(date))

\* getWeek(date): Math.round(diff / millisecondsInWeek) + 1
getWeek(date) ==
    ((startOfWeek(date).t - startOfWeekYear(date).t) \div 7) + 1

\* setWeek(date, week)
setWeek(date, week) == Date(date.t - (getWeek(date) - week) * 7)

\* addLeadingZeros(number, targetLength), number >= 0
addLeadingZeros(number, targetLength) == PadStart(NumToStr(number), targetLength)

\* the y and Y formatters print year 0 and earlier as 1 - year
UnsignedYear(signedYear) == IF signedYear > 0 THEN signedYear ELSE 1 - signedYear

\* the tokens of the patterns, of a valid date
Format_yyyy(date) == addLeadingZeros(UnsignedYear(getFullYear(date)), 4)

Format_MM(date) == addLeadingZeros(getMonth(date) + 1, 2)

Format_dd(date) == addLeadingZeros(getDate(date), 2)

Format_YYYY(date) == addLeadingZeros(UnsignedYear(getWeekYear(date)), 4)

Format_ww(date) == addLeadingZeros(getWeek(date), 2)

\* format(date, pattern) for the four patterns the library uses; an Invalid
\* Date makes format throw RangeError("Invalid time value")
format(date, pattern) ==
    IF date.nan THEN Throw("RangeError")
    ELSE CASE pattern = "yyyy-MM-dd" ->
                Ok(Format_yyyy(date) \o <<"-">> \o Format_MM(date)
                   \o <<"-">> \o Format_dd(date))
           [] pattern = "YYYY-'W'ww" ->
                Ok(Format_YYYY(date) \o <<"-", "W">> \o Format_ww(date))
           [] pattern = "yyyy-MM" ->
                Ok(Format_yyyy(date) \o <<"-">> \o Format_MM(date))
           [] pattern = "yyyy" ->
                Ok(Format_yyyy(date))

\* parse(s, "YYYY-'W'ww", referenceDate, {useAdditionalWeekYearTokens: true})
\* of a string of the week shape.  A week-numbering year of 0 or a week
\* outside 1..53 fails validation and gives an Invalid Date.  The Y setter
\* (priority 130) runs before the w setter (priority 100): it overwrites
\* year, month and day of the reference date.
parseWeekYearAndWeek(year, week, referenceDate) ==
    IF referenceDate.nan \/ year <= 0 \/ week < 1 \/ week > 53
    THEN InvalidDate
    ELSE startOfWeek(setWeek(startOfFirstWeek(year), week))

\* parse taking the year from the reference date, as it does for a pattern
\* without the Y token
parse_yearOfReference(s, referenceDate) ==
    parseWeekYearAndWeek(getFullYear(referenceDate), ParseInt(SubSeq(s, 7, 8)),
                         referenceDate)

parse(s, referenceDate) ==
    parseWeekYearAndWeek(ParseInt(SubSeq(s, 1, 4)), ParseInt(SubSeq(s, 7, 8)),
                         referenceDate)

\* parseISO(s) of a string of the shape YYYY-MM-DD: an Invalid Date unless
\* the month is 1..12 and the day is a day of that month
parseISOFields(year, month, day) ==
    IF month >= 1 /\ month <= 12 /\ day >= 1 /\ day <= DaysInMonth(year, month)
    THEN MakeDate(year, month - 1, day)
    ELSE InvalidDate

parseISO(s) ==
    parseISOFields(ParseInt(SubSeq(s, 1, 4)), ParseInt(SubSeq(s, 6, 7)),
                   ParseInt(SubSeq(s, 9, 10)))

(***************************************************************************)
(* converters.                                                             *)
(***************************************************************************)
\* what the template strings and pad give for NaN
NaNString == <<"N", "a", "N">>

\* getFullYear, getMonth and getDate of an Invalid Date are NaN, and so are
\* getWeekYear and getWeek: the builders print "NaN" for each number
dateToDayKey(date) ==
    IF date.nan THEN NaNString \o <<"-">> \o NaNString \o <<"-">> \o NaNString
    ELSE toDayKey(getFullYear(date), getMonth(date) + 1, getDate(date))

\* dateToWeekKey labelling the week with the calendar year of the date
dateToWeekKey_calendarYear(date) == toWeekKey(getFullYear(date), getWeek(date))

dateToWeekKey(date) ==
    IF date.nan THEN NaNString \o <<"-", "W">> \o NaNString
    ELSE toWeekKey(getWeekYear(date), getWeek(date))

dateToMonthKey(date) ==
    IF date.nan THEN NaNString \o <<"-">> \o NaNString
    ELSE toMonthKey(getFullYear(date), getMonth(date) + 1)

dateToYearKey(date) ==
    IF date.nan THEN NaNString ELSE toYearKey(getFullYear(date))

\* addWeeks(date, amount)
addWeeks(date, amount) == IF date.nan THEN date ELSE Date(date.t + 7 * amount)

\* parseWeekKeyToDate counting weeks from 0: it returns the week after
parseWeekKeyToDate_zeroBased(week, clock) ==
    format(startOfWeek(addWeeks(parse(week, Date(clock)), 1)), "yyyy-MM-dd")

\* parseWeekKeyToDate(week); clock is the value new Date() returns
parseWeekKeyToDate(week, clock) ==
    format(startOfWeek(parse(week, Date(clock))), "yyyy-MM-dd")

\* parseISO(parseWeekKeyToDate(key)), iso what parseWeekKeyToDate returned:
\* an exception it threw ends parseDateKey
parseISOOfWeek(iso) ==
    IF iso.err # "" THEN Throw(iso.err) ELSE Ok(parseISO(iso.val))

\* parseDateKey taking the 15th for the day a month key does not give
parseDateKey_midMonth(key, clock) ==
    IF isDayKey(key) THEN Ok(parseISO(key))
    ELSE IF isWeekKey(key) THEN parseISOOfWeek(parseWeekKeyToDate(key, clock))
    ELSE IF isMonthKey(key) THEN Ok(parseISO(key \o <<"-", "1", "5">>))
    ELSE IF isYearKey(key) THEN Ok(parseISO(key \o <<"-", "0", "1", "-", "0", "1">>))
    ELSE Throw("InvalidKey")

\* parseDateKey(key): [err, val] with val the Date
parseDateKey(key, clock) ==
    IF isDayKey(key) THEN Ok(parseISO(key))
    ELSE IF isWeekKey(key) THEN parseISOOfWeek(parseWeekKeyToDate(key, clock))
    ELSE IF isMonthKey(key) THEN Ok(parseISO(key \o <<"-", "0", "1">>))
    ELSE IF isYearKey(key) THEN Ok(parseISO(key \o <<"-", "0", "1", "-", "0", "1">>))
    ELSE Throw("InvalidKey")

\* formatDateAsKey printing the calendar year (yyyy) in a week key
formatDateAsKey_calendarYear(date, type) ==
    IF type = "week" /\ ~date.nan
    THEN Ok(addLeadingZeros(UnsignedYear(getFullYear(date)), 4) \o <<"-", "W">>
            \o addLeadingZeros(getWeek(date), 2))
    ELSE format(date, IF type = "day" THEN "yyyy-MM-dd"
                      ELSE IF type = "month" THEN "yyyy-MM" ELSE "yyyy")

\* formatDateAsKey(date, type): [err, val] with val the key
formatDateAsKey(date, type) ==
    CASE type = "day"   -> format(date, "yyyy-MM-dd")
      [] type = "week"  -> format(date, "YYYY-'W'ww")
      [] type = "month" -> format(date, "yyyy-MM")
      [] type = "year"  -> format(date, "yyyy")
      [] OTHER          -> Throw("Error: Invalid key type")

\* formatDateAsKey(date, targetType), date what parseDateKey returned: an
\* exception it threw ends convertDateKey
formatParsedAsKey(date, targetType) ==
    IF date.err # "" THEN Throw(date.err)
    ELSE formatDateAsKey(date.val, targetType)

\* convertDateKey(dateKey, targetType)
convertDateKey(dateKey, targetType, clock) ==
    formatParsedAsKey(parseDateKey(dateKey, clock), targetType)

\* getDateKeyType(key): [err, val] with val the resolution
getDateKeyType(key) ==
    IF isDayKey(key) THEN Ok("day")
    ELSE IF isWeekKey(key) THEN Ok("week")
    ELSE IF isMonthKey(key) THEN Ok("month")
    ELSE IF isYearKey(key) THEN Ok("year")
    ELSE Throw("InvalidKey")

\* parseDayKey(dayKey), of a key of the day shape
parseDayKeyParts(parts) ==
    [year |-> ParseInt(parts[1]), month |-> ParseInt(parts[2]),
     day |-> ParseInt(parts[3])]

parseDayKey(dayKey) == parseDayKeyParts(Split(dayKey, <<"-">>))

\* parseWeekKey(weekKey), of a key of the week shape
parseWeekKeyParts(parts) ==
    [year |-> ParseInt(parts[1]), week |-> ParseInt(parts[2])]

parseWeekKey(weekKey) == parseWeekKeyParts(Split(weekKey, <<"-", "W">>))

\* parseMonthKey(monthKey), of a key of the month shape
parseMonthKeyParts(parts) ==
    [year |-> ParseInt(parts[1]), month |-> ParseInt(parts[2])]

parseMonthKey(monthKey) == parseMonthKeyParts(Split(monthKey, <<"-">>))

\* parseYearKey(yearKey), of a key of the year shape
parseYearKey(yearKey) == ParseInt(yearKey)

\* parseDateKeyToParts returning an empty object for a string of no shape
parseDateKeyToParts_noThrow(dateKey) ==
    IF isDayKey(dateKey) THEN Ok(parseDayKey(dateKey))
    ELSE IF isWeekKey(dateKey) THEN Ok(parseWeekKey(dateKey))
    ELSE IF isMonthKey(dateKey) THEN Ok(parseMonthKey(dateKey))
    ELSE IF isYearKey(dateKey) THEN Ok([year |-> parseYearKey(dateKey)])
    ELSE Ok(<<>>)

\* parseDateKeyToParts(dateKey): [err, val] with val the object of the parts
parseDateKeyToParts(dateKey) ==
    IF isDayKey(dateKey) THEN Ok(parseDayKey(dateKey))
    ELSE IF isWeekKey(dateKey) THEN Ok(parseWeekKey(dateKey))
    ELSE IF isMonthKey(dateKey) THEN Ok(parseMonthKey(dateKey))
    ELSE IF isYearKey(dateKey) THEN Ok([year |-> parseYearKey(dateKey)])
    ELSE Throw("InvalidKey")

(***************************************************************************)
(* comparisons.                                                            *)
(***************************************************************************)
\* converted === current, the results of convertDateKey and formatDateAsKey:
\* an exception either threw ends the comparison
sameKey(converted, current) ==
    IF converted.err # "" THEN Throw(converted.err)
    ELSE IF current.err # "" THEN Throw(current.err)
    ELSE Ok(converted.val = current.val)

\* isCurrentDay(dateKey); clock is the value new Date() returns
isCurrentDay(dateKey, clock) ==
    sameKey(convertDateKey(dateKey, "day", clock),
            formatDateAsKey(Date(clock), "day"))

\* isCurrentWeek comparing at the day resolution
isCurrentWeek_sameDay(dateKey, clock) ==
    sameKey(convertDateKey(dateKey, "day", clock),
            formatDateAsKey(Date(clock), "day"))

isCurrentWeek(dateKey, clock) ==
    sameKey(convertDateKey(dateKey, "week", clock),
            formatDateAsKey(Date(clock), "week"))

\* isCurrentMonth comparing the number of the month alone
isCurrentMonth_monthOnly(dateKey, clock) ==
    IF convertDateKey(dateKey, "month", clock).err # ""
    THEN Throw(convertDateKey(dateKey, "month", clock).err)
    ELSE Ok(SubSeq(convertDateKey(dateKey, "month", clock).val, 6, 7)
            = SubSeq(formatDateAsKey(Date(clock), "month").val, 6, 7))

isCurrentMonth(dateKey, clock) ==
    sameKey(convertDateKey(dateKey, "month", clock),
            formatDateAsKey(Date(clock), "month"))

isCurrentYear(dateKey, clock) ==
    sameKey(convertDateKey(dateKey, "year", clock),
            formatDateAsKey(Date(clock), "year"))

\* the switch of isCurrentPeriod sending 'week' to isCurrentDay
isCurrentPeriodOfType_weekAsDay(type, dateKey, clock) ==
    IF type.err # "" THEN Throw(type.err)
    ELSE CASE type.val = "day"   -> isCurrentDay(dateKey, clock)
           [] type.val = "week"  -> isCurrentDay(dateKey, clock)
           [] type.val = "month" -> isCurrentMonth(dateKey, clock)
           [] type.val = "year"  -> isCurrentYear(dateKey, clock)
           [] OTHER              -> Ok(FALSE)

\* the switch of isCurrentPeriod, type what period ?? getDateKeyType(dateKey)
\* gave
isCurrentPeriodOfType(type, dateKey, clock) ==
    IF type.err # "" THEN Throw(type.err)
    ELSE CASE type.val = "day"   -> isCurrentDay(dateKey, clock)
           [] type.val = "week"  -> isCurrentWeek(dateKey, clock)
           [] type.val = "month" -> isCurrentMonth(dateKey, clock)
           [] type.val = "year"  -> isCurrentYear(dateKey, clock)
           [] OTHER              -> Ok(FALSE)

\* isCurrentPeriod(dateKey, period), period = "undefined" when it is not given
isCurrentPeriod(dateKey, period, clock) ==
    isCurrentPeriodOfType(IF period = "undefined" THEN getDateKeyType(dateKey)
                          ELSE Ok(period),
                          dateKey, clock)

(***************************************************************************)
(* Intl.DateTimeFormat("en-US", options): format and formatRange, as parts. *)
(* Characters outside ASCII are written by their code point.               *)
(***************************************************************************)
EnDash == "U+2013"
ThinSpace == "U+2009"

MonthLong ==
    <<"January", "February", "March", "April", "May", "June", "July",
      "August", "September", "October", "November", "December">>

MonthShort ==
    <<"Jan", "Feb", "Mar", "Apr", "May", "Jun", "Jul", "Aug", "Sep", "Oct",
      "Nov", "Dec">>

WeekdayLong ==
    <<"Sunday", "Monday", "Tuesday", "Wednesday", "Thursday", "Friday",
      "Saturday">>

Part(type, value) == [type |-> type, value |-> value]

Lit(s) == Part("literal", s)

\* the string a sequence of parts stands for
RECURSIVE Text(_)
Text(parts) ==
    IF Len(parts) = 0 THEN <<>> ELSE Head(parts).value \o Text(Tail(parts))

WeekdayPart(date) == Part("weekday", <<WeekdayLong[getDay(date) + 1]>>)

MonthPart(date, monthFormat) ==
    Part("month",
         CASE monthFormat = "long"    -> <<MonthLong[getMonth(date) + 1]>>
           [] monthFormat = "short"   -> <<MonthShort[getMonth(date) + 1]>>
           [] monthFormat = "numeric" -> NumToStr(getMonth(date) + 1))

DayPart(date) == Part("day", NumToStr(getDate(date)))

\* the year of the era Intl prints: year 0 is 1 BC, printed as 1 (the era is
\* not printed)
EraYear(year) == IF year > 0 THEN year ELSE 1 - year

YearPart(date) == Part("year", NumToStr(EraYear(getFullYear(date))))

\* year: "2-digit"
Year2Part(date) ==
    Part("year", addLeadingZeros(EraYear(getFullYear(date)) % 100, 2))

\* month and day, separated as en-US does
MonthDay(date, monthFormat) ==
    <<MonthPart(date, monthFormat),
      Lit(IF monthFormat = "numeric" THEN <<"/">> ELSE <<" ">>),
      DayPart(date)>>

\* month and year, separated as en-US does
MonthYear(date, monthFormat) ==
    <<MonthPart(date, monthFormat),
      Lit(IF monthFormat = "numeric" THEN <<"/">> ELSE <<" ">>),
      YearPart(date)>>

\* the month-name length a dateStyle prints
getMonthFormat(dateStyle) ==
    CASE dateStyle \in {"full", "long"} -> "long"
      [] dateStyle = "medium"           -> "short"
      [] dateStyle = "short"            -> "numeric"

\* {dateStyle} without the year: weekday (full only), month, day
StyleMonthDay(date, dateStyle) ==
    (IF dateStyle = "full" THEN <<WeekdayPart(date), Lit(<<",", " ">>)>> ELSE <<>>)
    \o MonthDay(date, getMonthFormat(dateStyle))

\* createFormatter({dateStyle}).format(date)
FormatStyle(date, dateStyle) ==
    IF dateStyle = "short"
    THEN MonthDay(date, "numeric") \o <<Lit(<<"/">>), Year2Part(date)>>
    ELSE StyleMonthDay(date, dateStyle) \o <<Lit(<<",", " ">>), YearPart(date)>>

\* the options objects the library builds: absent fields are ""
DateStyleOptions(dateStyle) ==
    [dateStyle |-> dateStyle, month |-> "", day |-> "", year |-> ""]

FieldOptions(month, day, year) ==
    [dateStyle |-> "", month |-> month, day |-> day, year |-> year]

\* createFormatter(options).format(date), of a valid date
IntlFormat(options, date) ==
    IF options.dateStyle # "" THEN FormatStyle(date, options.dateStyle)
    ELSE IF options.month # "" /\ options.day # "" THEN MonthDay(date, options.month)
    ELSE IF options.month # "" /\ options.year # "" THEN MonthYear(date, options.month)
    ELSE IF options.month # "" THEN <<MonthPart(date, options.month)>>
    ELSE IF options.day # "" THEN <<DayPart(date)>>
    ELSE <<YearPart(date)>>

RangeSeparator == Lit(<<ThinSpace, EnDash, ThinSpace>>)

\* the era of a date: year 0 and earlier are BC
EraPart(date) ==
    Part("era", IF getFullYear(date) > 0 THEN <<"A", "D">> ELSE <<"B", "C">>)

\* one end of a range whose two dates are of different eras: the date whole,
\* the era after the year
FormatWithEra(options, date) ==
    IntlFormat(options, date) \o <<Lit(<<" ">>), EraPart(date)>>

\* createFormatter(options).formatRange(startDate, endDate), of two valid
\* dates that differ in a field the options print: the fields that agree
\* from the era down are printed once, numeric patterns are printed whole
IntlFormatRange(options, startDate, endDate) ==
    LET sameYear  == getFullYear(startDate) = getFullYear(endDate)
        sameMonth == sameYear /\ getMonth(startDate) = getMonth(endDate)
        style     == options.dateStyle
    IN  IF (getFullYear(startDate) > 0) # (getFullYear(endDate) > 0)
        THEN FormatWithEra(options, startDate) \o <<RangeSeparator>>
             \o FormatWithEra(options, endDate)
        ELSE IF style = "short" \/ options.month = "numeric" \/ ~sameYear
        THEN IntlFormat(options, startDate) \o <<RangeSeparator>>
             \o IntlFormat(options, endDate)
        ELSE IF style = "" THEN
             <<MonthPart(startDate, options.month), RangeSeparator>>
             \o MonthYear(endDate, options.month)
        ELSE IF sameMonth /\ style # "full" THEN
             StyleMonthDay(startDate, style)
             \o <<RangeSeparator, DayPart(endDate), Lit(<<",", " ">>), YearPart(endDate)>>
        ELSE StyleMonthDay(startDate, style) \o <<RangeSeparator>>
             \o FormatStyle(endDate, style)

(***************************************************************************)
(* formatters.                                                             *)
(***************************************************************************)
\* JavaScript undefined: no string
Undefined == <<"undefined">>

\* a string is truthy unless it is empty; undefined is falsy
TruthyString(s) == s # Undefined /\ s # <<>>

\* omitCurrent is false | true | 'year' | 'month', or unset
TruthyOmit(omitCurrent) == omitCurrent \in {"true", "year", "month"}

\* shouldOmitYear without the early return for a falsy omitCurrent
shouldOmitYear_noGuard(date, omitCurrent, clock) ==
    getFullYear(date) = getFullYear(Date(clock))

\* shouldOmitYear(date, omitCurrent); clock is the value new Date() returns
shouldOmitYear(date, omitCurrent, clock) ==
    IF ~TruthyOmit(omitCurrent) THEN FALSE
    ELSE getFullYear(date) = getFullYear(Date(clock))

\* shouldOmitMonth comparing the month alone
shouldOmitMonth_monthOnly(date, omitCurrent, clock) ==
    IF omitCurrent # "month" THEN FALSE
    ELSE getMonth(date) = getMonth(Date(clock))

\* shouldOmitMonth(date, omitCurrent)
shouldOmitMonth(date, omitCurrent, clock) ==
    IF omitCurrent # "month" THEN FALSE
    ELSE /\ getFullYear(date) = getFullYear(Date(clock))
         /\ getMonth(date) = getMonth(Date(clock))

\* const { omitCurrent = false, dateStyle = 'long' } = options
OmitCurrentOf(options) ==
    IF options.omitCurrent = "undefined" THEN "false" ELSE options.omitCurrent

DateStyleOf(options) ==
    IF options.dateStyle = "undefined" THEN "long" ELSE options.dateStyle

\* the month branch passing omitCurrent on only when it is 'year'
FormatMonth_yearOnly(parsed, options, clock) ==
    LET omitCurrent   == OmitCurrentOf(options)
        effectiveOmit == IF omitCurrent \in {"true", "year"} THEN "year" ELSE "false"
        omitYear      == shouldOmitYear(parsed, effectiveOmit, clock)
        monthFormat   == getMonthFormat(DateStyleOf(options))
        formatterOptions ==
            IF omitYear THEN FieldOptions(monthFormat, "", "")
            ELSE FieldOptions(monthFormat, "", "numeric")
    IN  IntlFormat(formatterOptions, parsed)

\* the single month key branch, parsed a valid date
FormatMonth(parsed, options, clock) ==
    LET omitCurrent   == OmitCurrentOf(options)
        effectiveOmit == IF omitCurrent = "true" THEN "year" ELSE omitCurrent
        omitYear      == shouldOmitYear(parsed, effectiveOmit, clock)
        monthFormat   == getMonthFormat(DateStyleOf(options))
        formatterOptions ==
            IF omitYear THEN FieldOptions(monthFormat, "", "")
            ELSE FieldOptions(monthFormat, "", "numeric")
    IN  IntlFormat(formatterOptions, parsed)

\* the day branch treating omitCurrent true as 'year', as the month branch does
FormatDay_trueAsYear(parsed, options, clockM, clockY) ==
    LET omitCurrent   == OmitCurrentOf(options)
        dateStyle     == DateStyleOf(options)
        effectiveOmit == IF omitCurrent = "true" THEN "year" ELSE omitCurrent
        omitMonth     == shouldOmitMonth(parsed, effectiveOmit, clockM)
        omitYear      == shouldOmitYear(parsed, effectiveOmit, clockY)
        formatterOptions ==
            IF omitMonth THEN FieldOptions("", "numeric", "")
            ELSE IF omitYear THEN FieldOptions(getMonthFormat(dateStyle), "numeric", "")
            ELSE DateStyleOptions(dateStyle)
    IN  IntlFormat(formatterOptions, parsed)

\* the single day key branch, parsed a valid date; clockM and clockY are the
\* values new Date() returns in shouldOmitMonth and in shouldOmitYear
FormatDay(parsed, options, clockM, clockY) ==
    LET omitCurrent   == OmitCurrentOf(options)
        dateStyle     == DateStyleOf(options)
        effectiveOmit == IF TruthyOmit(omitCurrent) THEN "month" ELSE omitCurrent
        omitMonth     == shouldOmitMonth(parsed, effectiveOmit, clockM)
        omitYear      == shouldOmitYear(parsed, effectiveOmit, clockY)
        formatterOptions ==
            IF omitMonth THEN FieldOptions("", "numeric", "")
            ELSE IF omitYear THEN FieldOptions(getMonthFormat(dateStyle), "numeric", "")
            ELSE DateStyleOptions(dateStyle)
    IN  IntlFormat(formatterOptions, parsed)

\* formatFriendlyDate(start, end, options), end = Undefined for the call
\* with one key.  clk is the sequence of values the wall clock shows to the
\* call: clk[1] and clk[2] to the first key formatted, clk[3] and clk[4] to
\* the second key of the range fallback.  The result is [err, val], val the
\* parts of the string returned.
RECURSIVE formatFriendlyDate(_, _, _, _)

\* the week branches, from the two day keys formatDateAsKey returned
formatDayKeysOfWeeks(startDayKey, endDayKey, options, clk) ==
    IF startDayKey.err # "" THEN Throw(startDayKey.err)
    ELSE IF endDayKey.err # "" THEN Throw(endDayKey.err)
    ELSE formatFriendlyDate(startDayKey.val, endDayKey.val, options, clk)

\* the week branches ending the range on the first day of the last week
formatParsedWeeks_noEndOfWeek(startDate, endDate, options, clk) ==
    IF startDate.err # "" THEN Throw(startDate.err)
    ELSE IF endDate.err # "" THEN Throw(endDate.err)
    ELSE formatDayKeysOfWeeks(formatDateAsKey(startOfWeek(startDate.val), "day"),
                              formatDateAsKey(startOfWeek(endDate.val), "day"),
                              options, clk)

\* the week branches, from what parseDateKey returned for the two week keys
formatParsedWeeks(startDate, endDate, options, clk) ==
    IF startDate.err # "" THEN Throw(startDate.err)
    ELSE IF endDate.err # "" THEN Throw(endDate.err)
    ELSE formatDayKeysOfWeeks(formatDateAsKey(startOfWeek(startDate.val), "day"),
                              formatDateAsKey(endOfWeek(endDate.val), "day"),
                              options, clk)

\* the week branches taking both ends of the range from the last week
formatWeekKeys_lastOnly(first, last, options, clk) ==
    formatParsedWeeks(parseDateKey(last, clk[1]), parseDateKey(last, clk[2]),
                      options, clk)

\* a week key or a pair of week keys, formatted as the day range it spans
formatWeekKeys(first, last, options, clk) ==
    formatParsedWeeks(parseDateKey(first, clk[1]), parseDateKey(last, clk[2]),
                      options, clk)

\* the template string with a hyphen for the en dash
joinFormatted_hyphen(a, b) ==
    IF a.err # "" THEN a
    ELSE IF b.err # "" THEN b
    ELSE Ok(a.val \o <<Lit(<<" ", "-", " ">>)>> \o b.val)

\* `${a} - ${b}` with an en dash, a and b what the two calls returned
joinFormatted(a, b) ==
    IF a.err # "" THEN a
    ELSE IF b.err # "" THEN b
    ELSE Ok(a.val \o <<Lit(<<" ", EnDash, " ">>)>> \o b.val)

\* the two keys of a range formatted one by one
formatEachKey(start, end, options, clk) ==
    joinFormatted(formatFriendlyDate(start, Undefined, options, clk),
                  formatFriendlyDate(end, Undefined, options,
                                     <<clk[3], clk[4], clk[3], clk[4]>>))

\* two day keys or two month keys, from what parseDateKey returned for them:
\* formatRange when both dates are valid, else the keys one by one
formatParsedRange(startDate, endDate, formatterOptions, start, end, options, clk) ==
    IF startDate.err # "" THEN Throw(startDate.err)
    ELSE IF endDate.err # "" THEN Throw(endDate.err)
    ELSE IF isValid(startDate.val) /\ isValid(endDate.val)
    THEN Ok(IntlFormatRange(formatterOptions, startDate.val, endDate.val))
    ELSE formatEachKey(start, end, options, clk)

\* the range branch: end is a key other than start
formatKeyRange(start, end, options, clk) ==
    IF isWeekKey(start) /\ isWeekKey(end)
    THEN formatWeekKeys(start, end, options, clk)
    ELSE IF isDayKey(start) /\ isDayKey(end)
    THEN formatParsedRange(parseDateKey(start, clk[1]), parseDateKey(end, clk[1]),
                           DateStyleOptions(DateStyleOf(options)),
                           start, end, options, clk)
    ELSE IF isMonthKey(start) /\ isMonthKey(end)
    THEN formatParsedRange(parseDateKey(start, clk[1]), parseDateKey(end, clk[1]),
                           FieldOptions(getMonthFormat(DateStyleOf(options)),
                                        "", "numeric"),
                           start, end, options, clk)
    ELSE formatEachKey(start, end, options, clk)

\* the month, day and year branches, parsed what parseDateKey returned: a
\* key that gives an Invalid Date is returned as it is
formatParsedMonth(parsed, start, options, clk) ==
    IF parsed.err # "" THEN Throw(parsed.err)
    ELSE IF isValid(parsed.val) THEN Ok(FormatMonth(parsed.val, options, clk[1]))
    ELSE Ok(<<Lit(start)>>)

formatParsedDay(parsed, start, options, clk) ==
    IF parsed.err # "" THEN Throw(parsed.err)
    ELSE IF isValid(parsed.val)
    THEN Ok(FormatDay(parsed.val, options, clk[1], clk[2]))
    ELSE Ok(<<Lit(start)>>)

\* the year branch printing the year with two digits
formatParsedYear_twoDigit(parsed, start) ==
    IF parsed.err # "" THEN Throw(parsed.err)
    ELSE IF isValid(parsed.val)
    THEN Ok(<<Year2Part(parsed.val)>>)
    ELSE Ok(<<Lit(start)>>)

\* the year branch, from what parseDateKey returned
formatParsedYear(parsed, start) ==
    IF parsed.err # "" THEN Throw(parsed.err)
    ELSE IF isValid(parsed.val)
    THEN Ok(IntlFormat(FieldOptions("", "", "numeric"), parsed.val))
    ELSE Ok(<<Lit(start)>>)

\* the branches for one key
formatOneKey(start, options, clk) ==
    IF isWeekKey(start) THEN formatWeekKeys(start, start, options, clk)
    ELSE IF isMonthKey(start)
    THEN formatParsedMonth(parseDateKey(start, clk[1]), start, options, clk)
    ELSE IF isDayKey(start)
    THEN formatParsedDay(parseDateKey(start, clk[1]), start, options, clk)
    ELSE IF isYearKey(start)
    THEN formatParsedYear(parseDateKey(start, clk[1]), start)
    ELSE Ok(<<Lit(start)>>)

\* formatFriendlyDate without the test end !== start
formatFriendlyDate_noSameTest(start, end, options, clk) ==
    IF ~TruthyString(start) THEN Ok(<<>>)
    ELSE IF TruthyString(end)
    THEN formatKeyRange(start, end, options, clk)
    ELSE formatOneKey(start, options, clk)

\* formatFriendlyDate(start, end, options), end = Undefined when it is not
\* given; clk the values the readings of the clock give
formatFriendlyDate(start, end, options, clk) ==
    IF ~TruthyString(start) THEN Ok(<<>>)
    ELSE IF TruthyString(end) /\ end # start
    THEN formatKeyRange(start, end, options, clk)
    ELSE formatOneKey(start, options, clk)

(***************************************************************************)
(* Inputs.                                                                 *)
(***************************************************************************)
Resolutions == {"day", "week", "month", "year"}

\* the dates given to the converters: every day of NumYears calendar years
Dates == DaysFromCivil(FirstYear, 1, 1)..(DaysFromCivil(FirstYear + NumYears, 1, 1) - 1)

\* the values the wall clock can show: Dec 31 of ClockYear and the days after
ClockStart == DaysFromCivil(ClockYear, 12, 31)

Clock == ClockStart..(ClockStart + ClockDays)

\* the key of every period of every date, at each resolution
RealKeys == {formatDateAsKey(Date(d), r).val : d \in Dates, r \in Resolutions}

\* strings of none of the four shapes
Garbage ==
    { <<>>, <<"a", "b", "c">>, <<"2", "0", "2", "4", "-", "1">>,
      <<"2", "0", "2", "4", "-", "W", "1">>,
      <<"2", "0", "2", "4", "-", "w", "0", "1">>,
      <<"2", "0", "a", "4">>,
      <<" ", "2", "0", "2", "4">>,
      <<"2", "0", "2", "4", "-", "0", "1", "-", "1", "5", "0">> }

\* keys of a valid shape built from numbers that need not name a real period
BuiltKeys(years) ==
    {toDayKey(y, m, d) : y \in years, m \in {1, 2, 6, 12, 13}, d \in {0, 1, 15, 30, 32}}
    \cup {toWeekKey(y, w) : y \in years, w \in {0, 1, 27, 53, 54, 99}}
    \cup {toMonthKey(y, m) : y \in years, m \in {0, 1, 6, 12, 13}}
    \cup {toYearKey(y) : y \in years}

\* the keys given to parseDateKey, convertDateKey and getDateKeyType
ConverterKeys ==
    RealKeys \cup BuiltKeys(FirstYear..(FirstYear + NumYears - 1)) \cup Garbage

\* the keys given to formatFriendlyDate: the clock's year and the next
FormatterYears == {ClockYear, ClockYear + 1}

FormatterKeys ==
    {toDayKey(y, m, d) : y \in FormatterYears, m \in {1, 12, 13}, d \in {15, 32}}
    \cup {toWeekKey(y, w) : y \in FormatterYears, w \in {0, 1, 53, 99}}
    \cup {toMonthKey(y, m) : y \in FormatterYears, m \in {1, 12, 13}}
    \cup {toYearKey(y) : y \in FormatterYears}
    \cup {<<>>, <<"a", "b", "c">>, <<"2", "0", "2", "4", "-", "1">>}

\* the keys given to the comparisons: the keys of every period of the clock's
\* year and the next, keys of a valid shape that name no period, and strings
\* of no shape
CurrentDates ==
    DaysFromCivil(ClockYear, 1, 1)..(DaysFromCivil(ClockYear + 2, 1, 1) - 1)

CurrentKeys ==
    {formatDateAsKey(Date(d), r).val : d \in CurrentDates, r \in Resolutions}
    \cup BuiltKeys(FormatterYears) \cup Garbage

\* the period given to isCurrentPeriod, "undefined" when it is not given
Periods == Resolutions \cup {"undefined"}

\* the strings given to the guards: every string of at most MaxTail of the
\* characters a key is written with, alone and after a year
KeyCharacters == {"2", "-", "W"}

Tails == UNION {[1..n -> KeyCharacters] : n \in 0..MaxTail}

ShapeStrings == Tails \cup {<<"2", "0", "2", "4">> \o t : t \in Tails} \cup Garbage

\* the numbers given to the builders: years of three, four and five digits,
\* every month, day of the month and week
BuilderYears == {999, 1000, 2024, 9999, 10000}

BuilderMonths == 1..12

BuilderDays == 1..31

BuilderWeeks == 1..53

\* years of one, two, three and four digits, for the operations that print
\* a year; year 0 is 1 BC, and 2022 has 53 weeks
AnyYears == {0, 50, 999, 1000, 2022, ClockYear, ClockYear + 1, 9999}

\* the year keys given to formatFriendlyDate
YearKeys == {addLeadingZeros(y, 4) : y \in AnyYears}

\* the dates given to formatDateAsKey and dateToWeekKey: days at the start,
\* in the middle and at the end of those years, and the two weeks from
\* Dec 25 on
AnyYearDates ==
    {DaysFromCivil(y, m, d) : y \in AnyYears, m \in {1, 6, 12}, d \in {1, 15, 30}}
    \cup {DaysFromCivil(y, 12, 25) + k : y \in AnyYears, k \in 0..13}

OmitCurrentValues == {"undefined", "false", "true", "year", "month"}

DateStyleValues == {"undefined", "full", "long", "medium", "short"}

OptionsValues == [omitCurrent : OmitCurrentValues, dateStyle : DateStyleValues]

(***************************************************************************)
(* The state machine: the wall clock, the call in progress and what it     *)
(* returned.  The library keeps no state between calls: a call is made     *)
(* when none is in progress, and the caller then takes the result.         *)
(***************************************************************************)
NoCall == [op |-> "none"]

Init ==
    /\ now \in Clock
    /\ call = NoCall
    /\ ret = Ok(<<>>)

\* time passes between calls
Tick ==
    /\ call = NoCall
    /\ now + 1 \in Clock
    /\ now' = now + 1
    /\ UNCHANGED <<call, ret>>

DateToDayKey ==
    /\ call = NoCall
    /\\E d \in Dates :
        /\ call' = [op |-> "dateToDayKey", date |-> d]
        /\ ret' = Ok(dateToDayKey(Date(d)))
        /\ UNCHANGED now

DateToWeekKey ==
    /\ call = NoCall
    /\\E d \in Dates :
        /\ call' = [op |-> "dateToWeekKey", date |-> d]
        /\ ret' = Ok(dateToWeekKey(Date(d)))
        /\ UNCHANGED now

DateToMonthKey ==
    /\ call = NoCall
    /\\E d \in Dates :
        /\ call' = [op |-> "dateToMonthKey", date |-> d]
        /\ ret' = Ok(dateToMonthKey(Date(d)))
        /\ UNCHANGED now

DateToYearKey ==
    /\ call = NoCall
    /\\E d \in Dates :
        /\ call' = [op |-> "dateToYearKey", date |-> d]
        /\ ret' = Ok(dateToYearKey(Date(d)))
        /\ UNCHANGED now

FormatDateAsKey ==
    /\ call = NoCall
    /\\E d \in Dates, type \in Resolutions :
        /\ call' = [op |-> "formatDateAsKey", date |-> d, type |-> type]
        /\ ret' = formatDateAsKey(Date(d), type)
        /\ UNCHANGED now

ParseDateKey ==
    /\ call = NoCall
    /\\E key \in ConverterKeys :
        /\ call' = [op |-> "parseDateKey", key |-> key]
        /\ ret' = parseDateKey(key, now)
        /\ UNCHANGED now

ConvertDateKey ==
    /\ call = NoCall
    /\\E key \in ConverterKeys, type \in Resolutions :
        /\ call' = [op |-> "convertDateKey", key |-> key, type |-> type]
        /\ ret' = convertDateKey(key, type, now)
        /\ UNCHANGED now

GetDateKeyType ==
    /\ call = NoCall
    /\\E key \in ConverterKeys :
        /\ call' = [op |-> "getDateKeyType", key |-> key]
        /\ ret' = getDateKeyType(key)
        /\ UNCHANGED now

ParseDateKeyToParts ==
    /\ call = NoCall
    /\\E key \in ConverterKeys :
        /\ call' = [op |-> "parseDateKeyToParts", key |-> key]
        /\ ret' = parseDateKeyToParts(key)
        /\ UNCHANGED now

IsCurrentDay ==
    /\ call = NoCall
    /\\E key \in CurrentKeys :
        /\ call' = [op |-> "isCurrentDay", key |-> key, type |-> "day"]
        /\ ret' = isCurrentDay(key, now)
        /\ UNCHANGED now

IsCurrentWeek ==
    /\ call = NoCall
    /\\E key \in CurrentKeys :
        /\ call' = [op |-> "isCurrentWeek", key |-> key, type |-> "week"]
        /\ ret' = isCurrentWeek(key, now)
        /\ UNCHANGED now

IsCurrentMonth ==
    /\ call = NoCall
    /\\E key \in CurrentKeys :
        /\ call' = [op |-> "isCurrentMonth", key |-> key, type |-> "month"]
        /\ ret' = isCurrentMonth(key, now)
        /\ UNCHANGED now

IsCurrentYear ==
    /\ call = NoCall
    /\\E key \in CurrentKeys :
        /\ call' = [op |-> "isCurrentYear", key |-> key, type |-> "year"]
        /\ ret' = isCurrentYear(key, now)
        /\ UNCHANGED now

\* isCurrentPeriod(dateKey) and isCurrentPeriod(dateKey, period)
IsCurrentPeriod ==
    /\ call = NoCall
    /\\E key \in CurrentKeys, period \in Periods :
        /\ call' = [op |-> "isCurrentPeriod", key |-> key, period |-> period]
        /\ ret' = isCurrentPeriod(key, period, now)
        /\ UNCHANGED now

\* the values four successive readings of the clock can give in a call made
\* at t: the clock does not go back, and at most one midnight passes during
\* a call
ClockReadings(t) ==
    {clk \in [1..4 -> Clock] :
        /\ clk[1] = t
        /\ clk[1] <= clk[2] /\ clk[2] <= clk[3] /\ clk[3] <= clk[4]
        /\ clk[4] <= t + 1}

\* formatFriendlyDate(start, options) and formatFriendlyDate(start, end,
\* options): every new Date() of the call reads the clock when it runs, and
\* time may pass between two readings
FormatFriendlyDate ==
    /\ call = NoCall
    /\\E start \in FormatterKeys, end \in FormatterKeys \cup {Undefined},
         options \in OptionsValues, clk \in ClockReadings(now) :
        /\ call' = [op |-> "formatFriendlyDate", start |-> start, end |-> end,
                    options |-> options, clk |-> clk]
        /\ ret' = formatFriendlyDate(start, end, options, clk)
        /\ now' = clk[4]

IsDayKey ==
    /\ call = NoCall
    /\\E key \in ShapeStrings :
        /\ call' = [op |-> "isDayKey", key |-> key]
        /\ ret' = Ok(isDayKey(key))
        /\ UNCHANGED now

IsWeekKey ==
    /\ call = NoCall
    /\\E key \in ShapeStrings :
        /\ call' = [op |-> "isWeekKey", key |-> key]
        /\ ret' = Ok(isWeekKey(key))
        /\ UNCHANGED now

IsMonthKey ==
    /\ call = NoCall
    /\\E key \in ShapeStrings :
        /\ call' = [op |-> "isMonthKey", key |-> key]
        /\ ret' = Ok(isMonthKey(key))
        /\ UNCHANGED now

IsYearKey ==
    /\ call = NoCall
    /\\E key \in ShapeStrings :
        /\ call' = [op |-> "isYearKey", key |-> key]
        /\ ret' = Ok(isYearKey(key))
        /\ UNCHANGED now

ToDayKey ==
    /\ call = NoCall
    /\\E year \in BuilderYears, month \in BuilderMonths, day \in BuilderDays :
        /\ call' = [op |-> "toDayKey", year |-> year, month |-> month, day |-> day]
        /\ ret' = Ok(toDayKey(year, month, day))
        /\ UNCHANGED now

ToWeekKey ==
    /\ call = NoCall
    /\\E year \in BuilderYears, week \in BuilderWeeks :
        /\ call' = [op |-> "toWeekKey", year |-> year, week |-> week]
        /\ ret' = Ok(toWeekKey(year, week))
        /\ UNCHANGED now

ToMonthKey ==
    /\ call = NoCall
    /\\E year \in BuilderYears, month \in BuilderMonths :
        /\ call' = [op |-> "toMonthKey", year |-> year, month |-> month]
        /\ ret' = Ok(toMonthKey(year, month))
        /\ UNCHANGED now

ToYearKey ==
    /\ call = NoCall
    /\\E year \in BuilderYears :
        /\ call' = [op |-> "toYearKey", year |-> year]
        /\ ret' = Ok(toYearKey(year))
        /\ UNCHANGED now

\* formatFriendlyDate(start, options) of a year key
FormatFriendlyDateOfYear ==
    /\ call = NoCall
    /\\E start \in YearKeys, options \in OptionsValues, clk \in ClockReadings(now) :
        /\ call' = [op |-> "formatFriendlyDate", start |-> start,
                    end |-> Undefined, options |-> options, clk |-> clk]
        /\ ret' = formatFriendlyDate(start, Undefined, options, clk)
        /\ now' = clk[4]

\* formatDateAsKey(date, type) of a date of any year
FormatDateAsKeyOfAnyYear ==
    /\ call = NoCall
    /\\E d \in AnyYearDates, type \in Resolutions :
        /\ call' = [op |-> "formatDateAsKey", date |-> d, type |-> type]
        /\ ret' = formatDateAsKey(Date(d), type)
        /\ UNCHANGED now

\* dateToWeekKey(date) of a date of any year
DateToWeekKeyOfAnyYear ==
    /\ call = NoCall
    /\\E d \in AnyYearDates :
        /\ call' = [op |-> "dateToWeekKey", date |-> d]
        /\ ret' = Ok(dateToWeekKey(Date(d)))
        /\ UNCHANGED now

\* the caller takes the result
Return ==
    /\ call # NoCall
    /\ call' = NoCall
    /\ ret' = Ok(<<>>)
    /\ UNCHANGED now

\* the converters
Next ==
    \/ Return
    \/ Tick
    \/ DateToDayKey
    \/ DateToWeekKey
    \/ DateToMonthKey
    \/ DateToYearKey
    \/ FormatDateAsKey
    \/ ParseDateKey
    \/ ConvertDateKey
    \/ GetDateKeyType
    \/ ParseDateKeyToParts

Spec == Init /\ [][Next]_vars

\* the comparisons
NextCurrent ==
    \/ Tick
    \/ Return
    \/ IsCurrentDay
    \/ IsCurrentWeek
    \/ IsCurrentMonth
    \/ IsCurrentYear
    \/ IsCurrentPeriod

SpecCurrent == Init /\ [][NextCurrent]_vars

\* the formatter
NextFormat == Tick \/ Return \/ FormatFriendlyDate

SpecFormat == Init /\ [][NextFormat]_vars

\* the guards and the builders
NextShapes ==
    \/ Tick
    \/ Return
    \/ IsDayKey
    \/ IsWeekKey
    \/ IsMonthKey
    \/ IsYearKey
    \/ ToDayKey
    \/ ToWeekKey
    \/ ToMonthKey
    \/ ToYearKey

SpecShapes == Init /\ [][NextShapes]_vars

\* the operations that print a year, on years of any number of digits
NextYears ==
    \/ Tick
    \/ Return
    \/ FormatFriendlyDateOfYear
    \/ FormatDateAsKeyOfAnyYear
    \/ DateToWeekKeyOfAnyYear

SpecYears == Init /\ [][NextYears]_vars

(***************************************************************************)
(* Calendar facts the properties are stated with.                          *)
(***************************************************************************)
\* the Sunday on or before day d (day 0, 1970-01-01, was a Thursday)
SundayOnOrBefore(d) == CHOOSE s \in (d - 6)..d : (s + 4) % 7 = 0

\* the seven days of the Sunday-to-Saturday week of d
WeekDays(d) == SundayOnOrBefore(d)..(SundayOnOrBefore(d) + 6)

\* the calendar year that holds at least 4 of the 7 days of the week of d
MajorityYear(d) ==
    CHOOSE y \in {CivilFromDays(x).y : x \in WeekDays(d)} :
        Cardinality({x \in WeekDays(d) : CivilFromDays(x).y = y}) >= 4

\* the first day of the period of d at a resolution
PeriodStart(d, type) ==
    CASE type = "day"   -> d
      [] type = "week"  -> SundayOnOrBefore(d)
      [] type = "month" -> DaysFromCivil(CivilFromDays(d).y, CivilFromDays(d).m, 1)
      [] type = "year"  -> DaysFromCivil(CivilFromDays(d).y, 1, 1)

\* the year written in a key
KeyYear(key) == ParseInt(SubSeq(key, 1, 4))

\* dateToWeekKey of every date
WeekKeyOf == [d \in Dates |-> dateToWeekKey(Date(d))]

Called(op) == call # NoCall /\ call.op = op

(***************************************************************************)
(* Properties of the converters (checked under Spec).                      *)
(***************************************************************************)
\* C1: the week-numbering year in dateToWeekKey(d) is the calendar year that
\* holds at least 4 of the 7 days of the Sunday-to-Saturday week of d.
C1_WeekYearIsMajorityYear ==
    Called("dateToWeekKey") => KeyYear(ret.val) = MajorityYear(call.date)

\* C2: two dates get the same week key if and only if they lie in the same
\* Sunday-to-Saturday week; Dec 31 2023 and Jan 1 2024 both give 2024-W01 and
\* Dec 30 2023 gives 2023-W52.
C2_WeekKeysPartition ==
    Called("dateToWeekKey") =>
        /\ LET week == WeekDays(call.date)
           IN  \A d2 \in Dates : (WeekKeyOf[d2] = ret.val) <=> (d2 \in week)
        /\ call.date \in {DaysFromCivil(2023, 12, 31), DaysFromCivil(2024, 1, 1)}
               => ret.val = toWeekKey(2024, 1)
        /\ call.date = DaysFromCivil(2023, 12, 30) => ret.val = toWeekKey(2023, 52)

\* dateToWeekKey was called on Jan 1 2024, in the week that began in 2023
C2_Witness ==
    /\ Called("dateToWeekKey")
    /\ call.date = DaysFromCivil(2024, 1, 1)
    /\ WeekKeyOf[DaysFromCivil(2023, 12, 31)] = ret.val

\* C3: parsing the week key of a date and taking the week key of the result
\* gives the same week key, also for a week that straddles the new year.
C3_WeekRoundTrip ==
    Called("dateToWeekKey") =>
        LET parsed == parseDateKey(ret.val, now)
        IN  /\ parsed.err = ""
            /\ isValid(parsed.val)
            /\ dateToWeekKey(parsed.val) = ret.val

\* the week key of Jan 3 2024 parses to a date of the year before
C3_Witness ==
    /\ Called("dateToWeekKey")
    /\ call.date = DaysFromCivil(2024, 1, 3)
    /\ parseDateKey(ret.val, now).val = Date(DaysFromCivil(2023, 12, 31))

\* C4: parseDateKey(formatDateAsKey(d, r)) is the first day of the period of
\* d at resolution r: d itself, the Sunday on or before d, the 1st of the
\* month of d, Jan 1 of the year of d.
C4_ParseGivesPeriodStart ==
    Called("formatDateAsKey") =>
        /\ ret.err = ""
        /\ LET parsed == parseDateKey(ret.val, now)
           IN  /\ parsed.err = ""
               /\ parsed.val = Date(PeriodStart(call.date, call.type))

\* a week key whose Sunday lies in the calendar year before the date's
C4_Witness ==
    /\ Called("formatDateAsKey")
    /\ call.type = "week"
    /\ CivilFromDays(call.date).y = 2022
    /\ CivilFromDays(parseDateKey(ret.val, now).val.t).y = 2021

\* C5 as stated: for every key of any of the four shapes, converting it to
\* its own resolution gives the key back.
C5_ConvertToOwnTypeIsIdentity ==
    (Called("convertDateKey") /\ getDateKeyType(call.key) = Ok(call.type))
        => ret = Ok(call.key)

\* C5 amended: for every key that is the key of a real period (the key
\* formatDateAsKey gives for some date), converting it to its own resolution
\* gives the key back.
C5_ConvertRealKeyToOwnTypeIsIdentity ==
    (/\ Called("convertDateKey")
     /\ getDateKeyType(call.key) = Ok(call.type)
     /\ call.key \in RealKeys)
        => ret = Ok(call.key)

\* the week key of a week that began in the year before was converted to week
C5_Witness ==
    /\ Called("convertDateKey")
    /\ call.type = "week"
    /\ call.key = toWeekKey(2024, 1)
    /\ ret = Ok(call.key)

\* the string has one of the four shapes
HasShape(key) == isDayKey(key) \/ isWeekKey(key) \/ isMonthKey(key) \/ isYearKey(key)

\* C11: parseDateKey, parseDateKeyToParts and getDateKeyType signal InvalidKey
\* exactly when the string has none of the four shapes; on a string of a
\* shape parseDateKeyToParts gives the numbers written in the key.
C11_InvalidKeyIffNoShape ==
    /\ (Called("parseDateKey") \/ Called("parseDateKeyToParts")
        \/ Called("getDateKeyType"))
           => (ret.err = "InvalidKey" <=> ~HasShape(call.key))
    /\ (Called("parseDateKeyToParts") /\ HasShape(call.key))
           => /\ ret.err = ""
              /\ ret.val.year = KeyYear(call.key)
              /\ isWeekKey(call.key) =>
                     ret.val = [year |-> KeyYear(call.key),
                                week |-> ParseInt(SubSeq(call.key, 7, 8))]

\* parseDateKeyToParts signalled InvalidKey on "2024-1"
C11_Witness ==
    /\ Called("parseDateKeyToParts")
    /\ call.key = <<"2", "0", "2", "4", "-", "1">>
    /\ ret.err = "InvalidKey"

\* C12 as stated: no operation signals an error other than InvalidKey, also
\* on a key of a valid shape that names no real date.
C12_InvalidKeyIsTheOnlyError ==
    call # NoCall => ret.err \in {"", "InvalidKey"}

(***************************************************************************)
(* Properties of the comparisons (checked under SpecCurrent).              *)
(***************************************************************************)
\* C13 as stated: isCurrentPeriod without a period, on a string of none of
\* the four shapes, returns false and signals no error.
C13_UndetectableGivesFalse ==
    (Called("isCurrentPeriod") /\ call.period = "undefined" /\ ~HasShape(call.key))
        => ret = Ok(FALSE)

\* isCurrentDay, isCurrentWeek, isCurrentMonth or isCurrentYear was called;
\* call.type is its resolution
CalledIsCurrent ==
    Called("isCurrentDay") \/ Called("isCurrentWeek")
    \/ Called("isCurrentMonth") \/ Called("isCurrentYear")

\* C14: for each resolution r and every key k of a real period, isCurrent<r>(k)
\* is true exactly when convertDateKey(k, r) is formatDateAsKey(now, r), that
\* is when the period of resolution r of the first day of k is the one of
\* now; isCurrentDay is true of today's day key and false of yesterday's.
C14_CurrentIffSameKey ==
    /\ (CalledIsCurrent /\ call.key \in RealKeys) =>
           /\ ret.err = ""
           /\ ret.val = (convertDateKey(call.key, call.type, now)
                         = formatDateAsKey(Date(now), call.type))
           /\ ret.val = (PeriodStart(parseDateKey(call.key, now).val.t, call.type)
                         = PeriodStart(now, call.type))
    /\ (Called("isCurrentDay") /\ call.key = dateToDayKey(Date(now)))
           => ret = Ok(TRUE)
    /\ (Called("isCurrentDay") /\ call.key = dateToDayKey(Date(now - 1)))
           => ret = Ok(FALSE)

\* on Dec 31 2023 the day key of Jan 3 2024 is in the current week
C14_Witness ==
    /\ Called("isCurrentWeek")
    /\ now = DaysFromCivil(2023, 12, 31)
    /\ call.key = toDayKey(2024, 1, 3)
    /\ ret = Ok(TRUE)

\* isCurrent<r>(key) at the instant now
IsCurrentOf(r, key) ==
    CASE r = "day"   -> isCurrentDay(key, now)
      [] r = "week"  -> isCurrentWeek(key, now)
      [] r = "month" -> isCurrentMonth(key, now)
      [] r = "year"  -> isCurrentYear(key, now)

\* C26: for every key k of a real period, isCurrentPeriod(k) without a period
\* is isCurrentPeriod(k, getDateKeyType(k)), and isCurrentPeriod(k, r) is
\* isCurrentDay(k), isCurrentWeek(k), isCurrentMonth(k) or isCurrentYear(k)
\* for r day, week, month or year.
C26_PeriodDispatches ==
    /\ (Called("isCurrentPeriod") /\ call.key \in RealKeys
        /\ call.period = "undefined") =>
           /\ ret.err = ""
           /\ ret = isCurrentPeriod(call.key, getDateKeyType(call.key).val, now)
           /\ ret = IsCurrentOf(getDateKeyType(call.key).val, call.key)
    /\ (Called("isCurrentPeriod") /\ call.key \in RealKeys
        /\ call.period \in Resolutions) =>
           /\ ret.err = ""
           /\ ret = IsCurrentOf(call.period, call.key)
    /\ (CalledIsCurrent /\ call.key \in RealKeys) =>
           ret = isCurrentPeriod(call.key, call.type, now)

\* on Dec 31 2023 isCurrentPeriod of the day key of Jan 3 2024 was true for
\* the period 'week', as isCurrentWeek is, and is false without a period
C26_Witness ==
    /\ Called("isCurrentPeriod")
    /\ now = DaysFromCivil(2023, 12, 31)
    /\ call.key = toDayKey(2024, 1, 3) /\ call.period = "week"
    /\ ret = Ok(TRUE)
    /\ isCurrentWeek(call.key, now) = Ok(TRUE)
    /\ isCurrentPeriod(call.key, "undefined", now) = Ok(FALSE)

\* C28: at one instant and for every key k of a real period, isCurrentDay(k)
\* implies isCurrentWeek(k), isCurrentMonth(k) and isCurrentYear(k), and
\* isCurrentMonth(k) implies isCurrentYear(k).  (isCurrentWeek(k) does not
\* imply isCurrentYear(k): the witness has a week that holds Jan 1.)
C28_CurrentChecksAreNested ==
    /\ (Called("isCurrentDay") /\ call.key \in RealKeys /\ ret = Ok(TRUE)) =>
           /\ isCurrentWeek(call.key, now) = Ok(TRUE)
           /\ isCurrentMonth(call.key, now) = Ok(TRUE)
           /\ isCurrentYear(call.key, now) = Ok(TRUE)
    /\ (Called("isCurrentMonth") /\ call.key \in RealKeys /\ ret = Ok(TRUE)) =>
           isCurrentYear(call.key, now) = Ok(TRUE)

\* on Jan 1 2024 the month key 2024-01 was of the current month and is of
\* the current day, week and year, while the week key 2024-W01, of the
\* current week, is not of the current year
C28_Witness ==
    /\ Called("isCurrentMonth")
    /\ now = DaysFromCivil(2024, 1, 1)
    /\ call.key = toMonthKey(2024, 1)
    /\ ret = Ok(TRUE)
    /\ isCurrentDay(call.key, now) = Ok(TRUE)
    /\ isCurrentWeek(call.key, now) = Ok(TRUE)
    /\ isCurrentYear(call.key, now) = Ok(TRUE)
    /\ isCurrentWeek(toWeekKey(2024, 1), now) = Ok(TRUE)
    /\ isCurrentYear(toWeekKey(2024, 1), now) = Ok(FALSE)

(***************************************************************************)
(* Properties of the formatter (checked under SpecFormat).                 *)
(***************************************************************************)
HasPart(parts, type) == \E i \in 1..Len(parts) : parts[i].type = type

KeyMonth(key) == ParseInt(SubSeq(key, 6, 7))

KeyDay(key) == ParseInt(SubSeq(key, 9, 10))

\* a day key that names a day of the calendar
ValidDayKey(key) ==
    /\ isDayKey(key)
    /\ KeyMonth(key) \in 1..12
    /\ KeyDay(key) \in 1..DaysInMonth(KeyYear(key), KeyMonth(key))

\* a month key that names a month of the calendar
ValidMonthKey(key) == isMonthKey(key) /\ KeyMonth(key) \in 1..12

NowYear == CivilFromDays(now).y

NowMonth == CivilFromDays(now).m

\* every reading of the clock during the call gave the same day, which is
\* now
OneInstant == call.clk[1] = call.clk[4]

\* formatFriendlyDate(start, options) was called
CalledOneKey == Called("formatFriendlyDate") /\ call.end = Undefined

\* formatFriendlyDate(start, options) was called, at one instant
CalledSingle == CalledOneKey /\ OneInstant

OmitCurrent == OmitCurrentOf(call.options)

\* C6: on a valid day key, omitCurrent 'year' omits the year only (month and
\* day stay) exactly when the key's year is the year of now, whatever the
\* month; when the years differ the full date is shown.
C6_YearOmitsOnlyTheYear ==
    (CalledSingle /\ ValidDayKey(call.start) /\ OmitCurrent = "year") =>
        /\ ret.err = ""
        /\ HasPart(ret.val, "month") /\ HasPart(ret.val, "day")
        /\ HasPart(ret.val, "year") <=> KeyYear(call.start) # NowYear

\* C7: on a valid day key with omitCurrent true: the day number only if year
\* and month are those of now; month and day without the year if only the
\* year is that of now; month, day and year if the year differs.
C7_TrueCascadesOnDayKey ==
    (CalledSingle /\ ValidDayKey(call.start) /\ OmitCurrent = "true") =>
        /\ ret.err = ""
        /\ IF KeyYear(call.start) = NowYear /\ KeyMonth(call.start) = NowMonth
           THEN ret.val = <<Part("day", NumToStr(KeyDay(call.start)))>>
           ELSE IF KeyYear(call.start) = NowYear
           THEN /\ ~HasPart(ret.val, "year")
                /\ HasPart(ret.val, "month") /\ HasPart(ret.val, "day")
           ELSE /\ HasPart(ret.val, "year")
                /\ HasPart(ret.val, "month") /\ HasPart(ret.val, "day")

\* omitCurrent true printed a day of the current month as its number alone
C7_Witness ==
    /\ CalledSingle /\ ValidDayKey(call.start) /\ OmitCurrent = "true"
    /\ KeyYear(call.start) = NowYear /\ KeyMonth(call.start) = NowMonth
    /\ Text(ret.val) = <<"1", "5">>

\* C8 as stated: on a valid month key the year is omitted exactly when
\* omitCurrent is true or 'year' and the key's year is the year of now; true
\* gives what 'year' gives; the month is always shown.
C8_MonthKeyOmitsYearForTrueOrYear ==
    (CalledSingle /\ ValidMonthKey(call.start)) =>
        /\ ret.err = ""
        /\ HasPart(ret.val, "month")
        /\ ~HasPart(ret.val, "year")
               <=> (OmitCurrent \in {"true", "year"} /\ KeyYear(call.start) = NowYear)
        /\ OmitCurrent = "true" =>
               ret = formatFriendlyDate(call.start, Undefined,
                                        [call.options EXCEPT !.omitCurrent = "year"],
                                        <<now, now, now, now>>)

\* C8 amended: on a valid month key the year is omitted exactly when
\* omitCurrent is true, 'year' or 'month' and the key's year is the year of
\* now; true gives what 'year' gives; the month is always shown.
C8_MonthKeyOmitsYearForAnyOmit ==
    (CalledSingle /\ ValidMonthKey(call.start)) =>
        /\ ret.err = ""
        /\ HasPart(ret.val, "month")
        /\ ~HasPart(ret.val, "year")
               <=> (OmitCurrent \in {"true", "year", "month"}
                    /\ KeyYear(call.start) = NowYear)
        /\ OmitCurrent = "true" =>
               ret = formatFriendlyDate(call.start, Undefined,
                                        [call.options EXCEPT !.omitCurrent = "year"],
                                        <<now, now, now, now>>)

\* omitCurrent 'month' printed a month of the current year without the year
C8_Witness ==
    /\ CalledSingle /\ ValidMonthKey(call.start) /\ OmitCurrent = "month"
    /\ KeyYear(call.start) = NowYear
    /\ ~HasPart(ret.val, "year") /\ HasPart(ret.val, "month")

\* C9: with omitCurrent false or unset the result of formatFriendlyDate, for
\* a key or a range and any dateStyle, is the same for every value of the
\* wall clock.
C9_NoOmitIgnoresClock ==
    (Called("formatFriendlyDate") /\ OmitCurrent = "false") =>
        \A n \in Clock :
            formatFriendlyDate(call.start, call.end, call.options, <<n, n, n, n>>) = ret

\* a day of the current month and year was printed with its year, omitCurrent
\* unset
C9_Witness ==
    /\ CalledSingle /\ ValidDayKey(call.start)
    /\ call.options.omitCurrent = "undefined"
    /\ KeyYear(call.start) = NowYear /\ KeyMonth(call.start) = NowMonth
    /\ HasPart(ret.val, "year")

\* C10: formatFriendlyDate never signals an error, whatever the strings
\* (shapeless, month 13, day 32, week 00 or 99), and a single start that
\* cannot be formatted is returned unchanged.
C10_FormatterNeverThrows ==
    Called("formatFriendlyDate") =>
        /\ ret.err = ""
        /\ (/\ call.end = Undefined
            /\ ~ValidDayKey(call.start) /\ ~ValidMonthKey(call.start)
            /\ ~isYearKey(call.start) /\ ~isWeekKey(call.start))
               => Text(ret.val) = call.start

\* the Sunday of the week a week key of a real week names
WeekSunday(key) == CHOOSE d \in Dates : WeekKeyOf[d] = key /\ (d + 4) % 7 = 0

\* the day key of a day number
DayKeyOf(d) == toDayKey(CivilFromDays(d).y, CivilFromDays(d).m, CivilFromDays(d).d)

\* a week key that names a real week
ValidWeekKey(key) == isWeekKey(key) /\ key \in RealKeys

\* formatFriendlyDate(start, end, options) was called with two different
\* keys, at one instant
CalledRange ==
    /\ Called("formatFriendlyDate")
    /\ call.end # Undefined
    /\ call.end # call.start
    /\ OneInstant

\* formatFriendlyDate at the instant now
FormatNow(start, end, options) ==
    formatFriendlyDate(start, end, options, <<now, now, now, now>>)

\* C18: for every week key w of a real week and every options,
\* formatFriendlyDate(w, options) is formatFriendlyDate(S, E, options), S the
\* day key of the Sunday that starts w and E the day key of the Saturday six
\* days later; the result shows days and does not show "Www".
C18_WeekIsItsDaySpan ==
    (CalledSingle /\ ValidWeekKey(call.start)) =>
        /\ ret.err = ""
        /\ ret = FormatNow(DayKeyOf(WeekSunday(call.start)),
                           DayKeyOf(WeekSunday(call.start) + 6), call.options)
        /\ HasPart(ret.val, "day")
        /\ Occurrences(Text(ret.val), SubSeq(call.start, 6, 8)) = {}

\* week 1 of 2024 was shown as the days from Dec 31 2023 to Jan 6 2024
C18_Witness ==
    /\ CalledSingle
    /\ call.start = toWeekKey(2024, 1)
    /\ ret.err = ""
    /\ ret = FormatNow(toDayKey(2023, 12, 31), toDayKey(2024, 1, 6), call.options)
    /\ \E i \in 1..Len(ret.val) : ret.val[i] = Part("day", <<"3", "1">>)

\* C19: for two different week keys a and b of real weeks,
\* formatFriendlyDate(a, b, options) is formatFriendlyDate(S, E, options), S
\* the day key of the Sunday that starts a and E the day key of the Saturday
\* that ends b.
C19_WeekRangeIsItsDaySpan ==
    (CalledRange /\ ValidWeekKey(call.start) /\ ValidWeekKey(call.end)) =>
        ret = FormatNow(DayKeyOf(WeekSunday(call.start)),
                        DayKeyOf(WeekSunday(call.end) + 6), call.options)

\* the weeks from week 1 of 2023 to week 1 of 2024 were shown as the days
\* from Jan 1 2023 to Jan 6 2024
C19_Witness ==
    /\ CalledRange
    /\ call.start = toWeekKey(2023, 1) /\ call.end = toWeekKey(2024, 1)
    /\ ret.err = ""
    /\ ret = FormatNow(toDayKey(2023, 1, 1), toDayKey(2024, 1, 6), call.options)
    /\ \E i \in 1..Len(ret.val) : ret.val[i] = Part("day", <<"6">>)

\* the range is not one the formatter prints as a whole: the keys are not
\* both valid day keys, both valid month keys or both week keys
FallbackRange ==
    /\ CalledRange
    /\ ~(ValidDayKey(call.start) /\ ValidDayKey(call.end))
    /\ ~(ValidMonthKey(call.start) /\ ValidMonthKey(call.end))
    /\ ~(isWeekKey(call.start) /\ isWeekKey(call.end))

\* the result is the two keys formatted one by one and joined by " - " with
\* an en dash; an error of either is the error of the call
JoinedOneByOne ==
    LET a == FormatNow(call.start, Undefined, call.options)
        b == FormatNow(call.end, Undefined, call.options)
    IN  IF a.err # "" THEN ret.err = a.err
        ELSE IF b.err # "" THEN ret.err = b.err
        ELSE /\ ret.err = ""
             /\ Text(ret.val) = Text(a.val) \o <<" ", EnDash, " ">> \o Text(b.val)

\* C20 as stated: for every two different strings that are not both valid
\* day keys, both valid month keys or both week keys, the result is the two
\* formatted one by one, joined by an en dash with a space on each side.
C20_FallbackJoinsEndpoints ==
    FallbackRange => JoinedOneByOne

\* C20 amended: the same, for two different strings neither of which is empty.
C20_FallbackJoinsNonEmptyEndpoints ==
    (FallbackRange /\ call.start # <<>> /\ call.end # <<>>) => JoinedOneByOne

\* the years 2023 and 2024 were shown as "2023 - 2024" with an en dash
C20_Witness ==
    /\ CalledRange
    /\ call.start = toYearKey(2023) /\ call.end = toYearKey(2024)
    /\ Text(ret.val)
           = <<"2", "0", "2", "3", " ", EnDash, " ", "2", "0", "2", "4">>

\* C24: with omitCurrent 'year', a range of two different valid day keys of
\* the year of now is printed without the year at either end, and so is the
\* day range of a week key whose days are all of the year of now.
C24_RangeOmitsCurrentYear ==
    /\ (/\ CalledRange
        /\ ValidDayKey(call.start) /\ ValidDayKey(call.end)
        /\ KeyYear(call.start) = NowYear /\ KeyYear(call.end) = NowYear
        /\ OmitCurrent = "year")
           => (ret.err = "" /\ ~HasPart(ret.val, "year"))
    /\ (/\ CalledSingle
        /\ ValidWeekKey(call.start)
        /\ CivilFromDays(WeekSunday(call.start)).y = NowYear
        /\ CivilFromDays(WeekSunday(call.start) + 6).y = NowYear
        /\ OmitCurrent = "year")
           => (ret.err = "" /\ ~HasPart(ret.val, "year"))

\* the options of the call with another omitCurrent
WithOmitCurrent(omitCurrent) == [call.options EXCEPT !.omitCurrent = omitCurrent]

\* C25: on a single valid day key with omitCurrent 'month' the output is the
\* day number alone, without month and year, exactly when the key's year and
\* month are both those of now; omitCurrent true and omitCurrent 'month' give
\* the same output for every day key, dateStyle and now.
C25_MonthOmitsMonthAndYear ==
    /\ (CalledSingle /\ ValidDayKey(call.start) /\ OmitCurrent = "month") =>
           /\ ret.err = ""
           /\ (KeyYear(call.start) = NowYear /\ KeyMonth(call.start) = NowMonth)
                  <=> Text(ret.val) = NumToStr(KeyDay(call.start))
           /\ (KeyYear(call.start) = NowYear /\ KeyMonth(call.start) = NowMonth)
                  <=> (~HasPart(ret.val, "month") /\ ~HasPart(ret.val, "year"))
    /\ (CalledSingle /\ isDayKey(call.start) /\ OmitCurrent = "true") =>
           ret = FormatNow(call.start, Undefined, WithOmitCurrent("month"))
    /\ (CalledSingle /\ isDayKey(call.start) /\ OmitCurrent = "month") =>
           ret = FormatNow(call.start, Undefined, WithOmitCurrent("true"))

\* omitCurrent 'month' kept month and year of a day of the month of now in
\* another year
C25_Witness ==
    /\ CalledSingle /\ ValidDayKey(call.start) /\ OmitCurrent = "month"
    /\ KeyYear(call.start) # NowYear /\ KeyMonth(call.start) = NowMonth
    /\ HasPart(ret.val, "month") /\ HasPart(ret.val, "year")
    /\ ret = FormatNow(call.start, Undefined, WithOmitCurrent("true"))

\* C29: for every key k and options o, formatFriendlyDate(k, k, o) is
\* formatFriendlyDate(k, o); and formatFriendlyDate of an empty start is the
\* empty string.
C29_SameEndIsSingleKey ==
    /\ (Called("formatFriendlyDate") /\ call.end = call.start) =>
           ret = formatFriendlyDate(call.start, Undefined, call.options, call.clk)
    /\ (Called("formatFriendlyDate") /\ call.start = <<>>) =>
           (ret.err = "" /\ Text(ret.val) = <<>>)

\* the range from 2024 to 2024 was printed as "2024"
C29_Witness ==
    /\ Called("formatFriendlyDate")
    /\ call.start = toYearKey(2024) /\ call.end = call.start
    /\ Text(ret.val) = <<"2", "0", "2", "4">>

(***************************************************************************)
(* Properties of the formatter while time passes (checked under            *)
(* SpecFormat).                                                            *)
(***************************************************************************)
\* C15 as stated: the result of a formatFriendlyDate call is the result
\* computed against one of the instants the clock showed during the call,
\* also when the clock crosses a month or year boundary while the call runs.
C15_OneInstantPerCall ==
    Called("formatFriendlyDate") =>
        \E i \in 1..4 :
            ret = formatFriendlyDate(call.start, call.end, call.options,
                                     <<call.clk[i], call.clk[i], call.clk[i],
                                       call.clk[i]>>)

(***************************************************************************)
(* Properties of the guards and the builders (checked under SpecShapes).   *)
(***************************************************************************)
\* the number of shapes a string has
ShapeCount(key) ==
    Cardinality({g \in {"day", "week", "month", "year"} :
        CASE g = "day"   -> isDayKey(key)
          [] g = "week"  -> isWeekKey(key)
          [] g = "month" -> isMonthKey(key)
          [] g = "year"  -> isYearKey(key)})

\* C16: for every string at most one of isDayKey, isWeekKey, isMonthKey and
\* isYearKey is true.
C16_ShapesDisjoint ==
    (Called("isDayKey") \/ Called("isWeekKey") \/ Called("isMonthKey")
     \/ Called("isYearKey"))
        => /\ ShapeCount(call.key) <= 1
           /\ ret.val => ShapeCount(call.key) = 1

\* isMonthKey was true of "2024-22", which begins with a year key
C16_Witness ==
    /\ Called("isMonthKey")
    /\ call.key = <<"2", "0", "2", "4", "-", "2", "2">>
    /\ ret = Ok(TRUE)
    /\ ~isYearKey(call.key)

\* C17: for a year of four digits, a month 1..12, a day 1..31 and a week
\* 1..53 the key a builder gives has the shape of its resolution.
C17_BuiltKeysHaveTheirShape ==
    /\ (Called("toDayKey") /\ call.year \in 1000..9999) => isDayKey(ret.val)
    /\ (Called("toWeekKey") /\ call.year \in 1000..9999) => isWeekKey(ret.val)
    /\ (Called("toMonthKey") /\ call.year \in 1000..9999) => isMonthKey(ret.val)
    /\ (Called("toYearKey") /\ call.year \in 1000..9999) => isYearKey(ret.val)

\* toWeekKey(9999, 5) gave a key of the week shape
C17_Witness ==
    /\ Called("toWeekKey")
    /\ call.year = 9999 /\ call.week = 5
    /\ ret.val = <<"9", "9", "9", "9", "-", "W", "0", "5">>
    /\ isWeekKey(ret.val)

(***************************************************************************)
(* More properties of the converters (checked under Spec).                 *)
(***************************************************************************)
\* C22: convertDateKey of a valid key to a coarser resolution drops the finer
\* fields (day YYYY-MM-DD to month YYYY-MM and to year YYYY, month YYYY-MM to
\* year YYYY) and to a finer resolution gives the start of the period (month
\* YYYY-MM to day YYYY-MM-01, year YYYY to month YYYY-01 and to day
\* YYYY-01-01); a day key converted to month and back to day is day 01 of
\* its month.
C22_ConvertDiscardsOrFabricates ==
    Called("convertDateKey") =>
        /\ (ValidDayKey(call.key) /\ call.type = "month") =>
               /\ ret = Ok(SubSeq(call.key, 1, 7))
               /\ convertDateKey(ret.val, "day", now)
                      = Ok(SubSeq(call.key, 1, 8) \o <<"0", "1">>)
        /\ (ValidDayKey(call.key) /\ call.type = "year") =>
               ret = Ok(SubSeq(call.key, 1, 4))
        /\ (ValidMonthKey(call.key) /\ call.type = "year") =>
               ret = Ok(SubSeq(call.key, 1, 4))
        /\ (ValidMonthKey(call.key) /\ call.type = "day") =>
               ret = Ok(call.key \o <<"-", "0", "1">>)
        /\ (isYearKey(call.key) /\ call.type = "month") =>
               ret = Ok(call.key \o <<"-", "0", "1">>)
        /\ (isYearKey(call.key) /\ call.type = "day") =>
               ret = Ok(call.key \o <<"-", "0", "1", "-", "0", "1">>)

\* 2024-06-15 was converted to 2024-06, which converts back to 2024-06-01
C22_Witness ==
    /\ Called("convertDateKey")
    /\ call.key = toDayKey(2024, 6, 15) /\ call.type = "month"
    /\ ret = Ok(toMonthKey(2024, 6))
    /\ convertDateKey(ret.val, "day", now) = Ok(toDayKey(2024, 6, 1))
    /\ toDayKey(2024, 6, 1) # call.key

\* C30: for every key of a real period, week keys included, the date
\* parseDateKey returns is the same for every value of now, although a week
\* key is parsed with the current instant as the reference date.
C30_ParseIgnoresClock ==
    (Called("parseDateKey") /\ call.key \in RealKeys) =>
        /\ ret.err = "" /\ isValid(ret.val)
        /\ \A t \in Clock : parseDateKey(call.key, t) = ret

\* on Jan 1 2024 the week key 2023-W27 was parsed to Jul 2 2023, as it is on
\* Dec 31 2023
C30_Witness ==
    /\ Called("parseDateKey")
    /\ now = DaysFromCivil(2024, 1, 1)
    /\ call.key = toWeekKey(2023, 27)
    /\ ret = Ok(Date(DaysFromCivil(2023, 7, 2)))
    /\ parseDateKey(call.key, DaysFromCivil(2023, 12, 31)) = ret

(***************************************************************************)
(* Properties of the operations that print a year (checked under           *)
(* SpecYears).                                                             *)
(***************************************************************************)
\* the call gives the same result for every dateStyle, every omitCurrent
\* and every value of now
SameForAllOptionsAndClocks ==
    \A o \in OptionsValues, t \in Clock :
        formatFriendlyDate(call.start, Undefined, o, <<t, t, t, t>>) = ret

\* C21 as stated: for a single year key formatFriendlyDate returns the four
\* digits of the key, and the result is the same for every dateStyle, every
\* omitCurrent and every value of now.
C21_YearKeyIsPrintedAsIs ==
    (CalledOneKey /\ isYearKey(call.start)) =>
        /\ ret.err = ""
        /\ Text(ret.val) = call.start
        /\ SameForAllOptionsAndClocks

\* C21 amended: for a single year key formatFriendlyDate returns the number
\* of the year, which is the four digits of the key for the years 1000 to
\* 9999 and 1 for the year 0 (1 BC), and the result is the same for every
\* dateStyle, every omitCurrent and every value of now.
C21_YearKeyIsPrintedAsItsNumber ==
    (CalledOneKey /\ isYearKey(call.start)) =>
        /\ ret.err = ""
        /\ Text(ret.val) = IF KeyYear(call.start) = 0 THEN <<"1">>
                           ELSE NumToStr(KeyYear(call.start))
        /\ KeyYear(call.start) >= 1000 => Text(ret.val) = call.start
        /\ SameForAllOptionsAndClocks

\* the key of the year of now was printed whole with omitCurrent true and
\* dateStyle short, the year changing during the call
C21_Witness ==
    /\ CalledOneKey
    /\ call.clk[1] # call.clk[4]
    /\ call.start = NumToStr(NowYear)
    /\ call.options = [omitCurrent |-> "true", dateStyle |-> "short"]
    /\ Text(ret.val) = call.start
    /\ Len(Text(ret.val)) = 4

\* C23: for every date d, also of a year of fewer than 4 digits,
\* formatDateAsKey(d, r) is dateToDayKey(d), dateToWeekKey(d),
\* dateToMonthKey(d) or dateToYearKey(d), for r day, week, month or year.
C23_FormatDateAsKeyIsTheProjection ==
    Called("formatDateAsKey") =>
        ret = Ok(CASE call.type = "day"   -> dateToDayKey(Date(call.date))
                   [] call.type = "week"  -> dateToWeekKey(Date(call.date))
                   [] call.type = "month" -> dateToMonthKey(Date(call.date))
                   [] call.type = "year"  -> dateToYearKey(Date(call.date)))

\* the week number written in a week key
KeyWeek(key) == ParseInt(SubSeq(key, 7, 8))

\* C27: for every date d of a year of 4 digits, dateToWeekKey(d)
\* has the shape of a week key and its week number is between 1 and 53.
C27_WeekKeyOfDateIsWellFormed ==
    (Called("dateToWeekKey") /\ CivilFromDays(call.date).y \in 1000..9999) =>
        /\ isWeekKey(ret.val)
        /\ KeyWeek(ret.val) \in 1..53

====
